---------------------------- MODULE Spec2Model ----------------------------
(* A model of the mcp4x digital potentiometer driver: the per-variant      *)
(* channel/position checks, the command encoding, the two transports       *)
(* (SPI: two-byte frame, I2C: one-byte frame to a fixed address) and the   *)
(* construction/teardown of the driver handle.                             *)
(*                                                                         *)
(* The operations are those of device_impl.rs (checks, then write_command  *)
(* with a Command) over the transports of interface.rs; lib.rs supplies    *)
(* the Command encoding.  lib.rs also carries an earlier, unchecked        *)
(* set_position/shutdown and a Channel without All; Channel::All is taken  *)
(* as device_impl.rs uses it.                                              *)
EXTENDS Integers, Sequences, FiniteSets, TLC

VARIABLES
    callerBus,  \* the bus-transport instance while the caller owns it ({} once moved)
    handle,     \* the driver handle Mcp4x<DI, IC> ({} before new_* and after destroy_*)
    supplied,   \* the bus instance that was passed to new_* ({} before)
    returned,   \* the bus instance that destroy_* gave back ({} before)
    history     \* one record per set_position/shutdown call, as the caller saw it

vars == <<callerBus, handle, supplied, returned, history>>

---------------------------------------------------------------------------
(* Bounds of the model *)

\* the longest sequence of calls made on one handle
MaxCalls == 2

\* identities of bus instances the caller may supply
NumBuses == 2

\* the positions used in sequences of calls: the ends of the u8 range and
\* both sides of the Mcp401x limit
SamplePositions == {0, 127, 128, 255}

\* every u8 position
AllPositions == 0..255

\* the errors the bus transport may report from a write
TransportErrors == {"E1", "E2"}

\* what one bus write may do: succeed, or fail with a transport error
WriteOutcomes == {"Ok"} \cup TransportErrors

Protocols == {"spi", "i2c"}

---------------------------------------------------------------------------
(* Values *)

Channel == {"Ch0", "Ch1", "All"}

Variants == {"Mcp401x", "Mcp41x", "Mcp42x"}

Ok == [tag |-> "Ok"]

Err(e) == [tag |-> "Err", error |-> e]

WrongChannel == [tag |-> "WrongChannel"]

OutOfBounds == [tag |-> "OutOfBounds"]

Unsupported == [tag |-> "Unsupported"]

Comm(e) == [tag |-> "Comm", inner |-> e]

SetPosition(channel, position) ==
    [tag |-> "SetPosition", channel |-> channel, position |-> position]

Shutdown(channel) == [tag |-> "Shutdown", channel |-> channel]

\* the value held by a one-element set (an owned value that has not been moved)
The(s) == CHOOSE x \in s : TRUE

\* u8 | u8
RECURSIVE BitOr(_, _)
BitOr(a, b) ==
    IF a = 0 THEN b
    ELSE IF b = 0 THEN a
    ELSE (IF a % 2 = 1 \/ b % 2 = 1 THEN 1 ELSE 0) + 2 * BitOr(a \div 2, b \div 2)

---------------------------------------------------------------------------
(* Command encoding (lib.rs) *)

\* Channel::All is used by device_impl.rs but its bit pattern is not in the
\* available lib.rs; the specification gives it as the OR of the channel bits
get_bits_All == BitOr(1, 2)

get_bits(channel) ==
    CASE channel = "Ch0" -> 1
      [] channel = "Ch1" -> 2
      [] channel = "All" -> get_bits_All

\* fault: the Shutdown opcode without the channel bits
get_command_byte_NoShutdownChannel(command) ==
    CASE command.tag = "SetPosition" -> BitOr(16, get_bits(command.channel))
      [] command.tag = "Shutdown" -> 32

get_command_byte(command) ==
    CASE command.tag = "SetPosition" -> BitOr(16, get_bits(command.channel))
      [] command.tag = "Shutdown" -> BitOr(32, get_bits(command.channel))

get_data_byte(command) ==
    CASE command.tag = "SetPosition" -> command.position
      [] command.tag = "Shutdown" -> 0

---------------------------------------------------------------------------
(* Per-variant checks (device_impl.rs) *)

Mcp401x_check_if_channel_is_appropriate(channel) ==
    IF channel = "Ch0" \/ channel = "All" THEN Ok ELSE Err(WrongChannel)

\* fault: the limit off by one
Mcp401x_check_if_position_is_appropriate_OffByOne(position) ==
    IF position < 127 THEN Ok ELSE Err(OutOfBounds)

Mcp401x_check_if_position_is_appropriate(position) ==
    IF position <= 127 THEN Ok ELSE Err(OutOfBounds)

\* fault: the single-channel part given the dual-channel rule
Mcp41x_check_if_channel_is_appropriate_AnyChannel(channel) == Ok

Mcp41x_check_if_channel_is_appropriate(channel) ==
    IF channel = "Ch0" \/ channel = "All" THEN Ok ELSE Err(WrongChannel)

Mcp41x_check_if_position_is_appropriate(position) == Ok

Mcp42x_check_if_channel_is_appropriate(channel) == Ok

Mcp42x_check_if_position_is_appropriate(position) == Ok

\* IC::check_if_channel_is_appropriate, dispatched on the handle's marker type
check_if_channel_is_appropriate(ic, channel) ==
    CASE ic = "Mcp401x" -> Mcp401x_check_if_channel_is_appropriate(channel)
      [] ic = "Mcp41x" -> Mcp41x_check_if_channel_is_appropriate(channel)
      [] ic = "Mcp42x" -> Mcp42x_check_if_channel_is_appropriate(channel)

\* IC::check_if_position_is_appropriate, dispatched on the handle's marker type
check_if_position_is_appropriate(ic, position) ==
    CASE ic = "Mcp401x" -> Mcp401x_check_if_position_is_appropriate(position)
      [] ic = "Mcp41x" -> Mcp41x_check_if_position_is_appropriate(position)
      [] ic = "Mcp42x" -> Mcp42x_check_if_position_is_appropriate(position)

---------------------------------------------------------------------------
(* Transports (interface.rs) *)

ADDRESS == 47

\* SpiDevice::write(&payload): the bus sees one frame; the write ends as
\* `outcome` says
spi_write(spi, payload, outcome) ==
    [dev |-> [spi EXCEPT !.log = Append(@, [bytes |-> payload, res |-> outcome])],
     res |-> outcome]

\* I2c::write(address, &bytes)
i2c_write(i2c, address, bytes, outcome) ==
    [dev |-> [i2c EXCEPT !.log =
                 Append(@, [address |-> address, bytes |-> bytes, res |-> outcome])],
     res |-> outcome]

\* .map_err(Error::Comm)
map_err_Comm(res) == IF res = "Ok" THEN Ok ELSE Err(Comm(res))

\* fault: the two bytes of the payload in the wrong order
SpiInterface_write_command_Swapped(iface, command, outcome) ==
    LET payload == <<get_data_byte(command), get_command_byte(command)>>
        w == spi_write(iface.spi, payload, outcome)
    IN  [iface |-> [iface EXCEPT !.spi = w.dev], result |-> map_err_Comm(w.res)]

\* fault: a failed write is tried once more
SpiInterface_write_command_Retry(iface, command, outcome) ==
    LET payload == <<get_command_byte(command), get_data_byte(command)>>
        w == spi_write(iface.spi, payload, outcome)
        w2 == IF w.res = "Ok" THEN w ELSE spi_write(w.dev, payload, outcome)
    IN  [iface |-> [iface EXCEPT !.spi = w2.dev], result |-> map_err_Comm(w2.res)]

SpiInterface_write_command(iface, command, outcome) ==
    LET payload == <<get_command_byte(command), get_data_byte(command)>>
        w == spi_write(iface.spi, payload, outcome)
    IN  [iface |-> [iface EXCEPT !.spi = w.dev], result |-> map_err_Comm(w.res)]

\* fault: shutdown silently does nothing
I2cInterface_write_command_SilentShutdown(iface, command, outcome) ==
    CASE command.tag = "SetPosition" ->
            LET w == i2c_write(iface.i2c, ADDRESS, <<command.position>>, outcome)
            IN  [iface |-> [iface EXCEPT !.i2c = w.dev], result |-> map_err_Comm(w.res)]
      [] command.tag = "Shutdown" ->
            [iface |-> iface, result |-> Ok]

\* fault: the SPI payload sent over I2C
I2cInterface_write_command_TwoBytes(iface, command, outcome) ==
    CASE command.tag = "SetPosition" ->
            LET w == i2c_write(iface.i2c, ADDRESS,
                               <<get_command_byte(command), command.position>>, outcome)
            IN  [iface |-> [iface EXCEPT !.i2c = w.dev], result |-> map_err_Comm(w.res)]
      [] command.tag = "Shutdown" ->
            [iface |-> iface, result |-> Err(Unsupported)]

I2cInterface_write_command(iface, command, outcome) ==
    CASE command.tag = "SetPosition" ->
            LET w == i2c_write(iface.i2c, ADDRESS, <<command.position>>, outcome)
            IN  [iface |-> [iface EXCEPT !.i2c = w.dev], result |-> map_err_Comm(w.res)]
      [] command.tag = "Shutdown" ->
            [iface |-> iface, result |-> Err(Unsupported)]

\* self.iface.write_command(command), dispatched on the interface type DI
write_command(iface, command, outcome) ==
    CASE iface.kind = "SpiInterface" -> SpiInterface_write_command(iface, command, outcome)
      [] iface.kind = "I2cInterface" -> I2cInterface_write_command(iface, command, outcome)

---------------------------------------------------------------------------
(* Public operations (device_impl.rs) *)

\* fault: the position check made before the channel check
set_position_PositionFirst(self, channel, position, outcome) ==
    LET p == check_if_position_is_appropriate(self.ic, position) IN
    IF p # Ok THEN [self |-> self, result |-> p]
    ELSE LET c == check_if_channel_is_appropriate(self.ic, channel) IN
         IF c # Ok THEN [self |-> self, result |-> c]
         ELSE LET w == write_command(self.iface, SetPosition(channel, position), outcome)
              IN  [self |-> [self EXCEPT !.iface = w.iface], result |-> w.result]

\* fault: the command written before the checks are made
set_position_WriteFirst(self, channel, position, outcome) ==
    LET w == write_command(self.iface, SetPosition(channel, position), outcome)
        c == check_if_channel_is_appropriate(self.ic, channel)
        p == check_if_position_is_appropriate(self.ic, position)
        written == [self EXCEPT !.iface = w.iface]
    IN  IF c # Ok THEN [self |-> written, result |-> c]
        ELSE IF p # Ok THEN [self |-> written, result |-> p]
        ELSE [self |-> written, result |-> w.result]

set_position(self, channel, position, outcome) ==
    LET c == check_if_channel_is_appropriate(self.ic, channel) IN
    IF c # Ok THEN [self |-> self, result |-> c]
    ELSE LET p == check_if_position_is_appropriate(self.ic, position) IN
         IF p # Ok THEN [self |-> self, result |-> p]
         ELSE LET w == write_command(self.iface, SetPosition(channel, position), outcome)
              IN  [self |-> [self EXCEPT !.iface = w.iface], result |-> w.result]

shutdown(self, channel, outcome) ==
    LET c == check_if_channel_is_appropriate(self.ic, channel) IN
    IF c # Ok THEN [self |-> self, result |-> c]
    ELSE LET w == write_command(self.iface, Shutdown(channel), outcome)
         IN  [self |-> [self EXCEPT !.iface = w.iface], result |-> w.result]

new_mcp401x(i2c) == [iface |-> [kind |-> "I2cInterface", i2c |-> i2c], ic |-> "Mcp401x"]

destroy_mcp401x(self) == self.iface.i2c

new_mcp41x(spi) == [iface |-> [kind |-> "SpiInterface", spi |-> spi], ic |-> "Mcp41x"]

destroy_mcp41x(self) == self.iface.spi

new_mcp42x(spi) == [iface |-> [kind |-> "SpiInterface", spi |-> spi], ic |-> "Mcp42x"]

\* fault: a bus instance other than the one the handle owns is given back
destroy_mcp42x_OtherBus(self) == [self.iface.spi EXCEPT !.id = 1]

destroy_mcp42x(self) == self.iface.spi

---------------------------------------------------------------------------
(* What the bus transport has seen *)

\* the bus instance a handle owns
BusOf(self) ==
    IF self.iface.kind = "SpiInterface" THEN self.iface.spi ELSE self.iface.i2c

\* the frames the transport has been asked to write, in order
Log(self) == BusOf(self).log

\* the caller's record of one call
CallRecord(self, command, out) ==
    [ic |-> self.ic, transport |-> self.iface.kind, command |-> command,
     result |-> out.result,
     before |-> Len(Log(self)), after |-> Len(Log(out.self))]

---------------------------------------------------------------------------
(* The state machine *)

Init ==
    /\ callerBus \in {{[proto |-> p, id |-> i, log |-> <<>>]} :
                          p \in Protocols, i \in 1..NumBuses}
    /\ handle = {}
    /\ supplied = {}
    /\ returned = {}
    /\ history = <<>>

NewMcp401x ==
    /\ callerBus # {}
    /\ The(callerBus).proto = "i2c"
    /\ handle' = {new_mcp401x(The(callerBus))}
    /\ supplied' = callerBus
    /\ callerBus' = {}
    /\ UNCHANGED <<returned, history>>

NewMcp41x ==
    /\ callerBus # {}
    /\ The(callerBus).proto = "spi"
    /\ handle' = {new_mcp41x(The(callerBus))}
    /\ supplied' = callerBus
    /\ callerBus' = {}
    /\ UNCHANGED <<returned, history>>

NewMcp42x ==
    /\ callerBus # {}
    /\ The(callerBus).proto = "spi"
    /\ handle' = {new_mcp42x(The(callerBus))}
    /\ supplied' = callerBus
    /\ callerBus' = {}
    /\ UNCHANGED <<returned, history>>

\* a set_position call on the live handle, while fewer than `limit` calls were made
SetPositionCall(positions, limit) ==
    /\ handle # {}
    /\ Len(history) < limit
    /\ \E channel \in Channel, position \in positions, outcome \in WriteOutcomes :
          LET self == The(handle)
              out == set_position(self, channel, position, outcome)
          IN  /\ handle' = {out.self}
              /\ history' = Append(history,
                                   CallRecord(self, SetPosition(channel, position), out))
    /\ UNCHANGED <<callerBus, supplied, returned>>

ShutdownCall(limit) ==
    /\ handle # {}
    /\ Len(history) < limit
    /\ \E channel \in Channel, outcome \in WriteOutcomes :
          LET self == The(handle)
              out == shutdown(self, channel, outcome)
          IN  /\ handle' = {out.self}
              /\ history' = Append(history, CallRecord(self, Shutdown(channel), out))
    /\ UNCHANGED <<callerBus, supplied, returned>>

Destroy ==
    /\ handle # {}
    /\ LET self == The(handle) IN
          returned' = { CASE self.ic = "Mcp401x" -> destroy_mcp401x(self)
                          [] self.ic = "Mcp41x" -> destroy_mcp41x(self)
                          [] self.ic = "Mcp42x" -> destroy_mcp42x(self) }
    /\ handle' = {}
    /\ UNCHANGED <<callerBus, supplied, history>>

\* sequences of calls on one handle, with the sample positions
Next ==
    \/ NewMcp401x
    \/ NewMcp41x
    \/ NewMcp42x
    \/ SetPositionCall(SamplePositions, MaxCalls)
    \/ ShutdownCall(MaxCalls)
    \/ Destroy

Spec == Init /\ [][Next]_vars

\* the first call on a fresh handle, with every u8 position: one call is
\* made, so that all 256 positions can be enumerated
NextFirstCall ==
    \/ NewMcp401x
    \/ NewMcp41x
    \/ NewMcp42x
    \/ SetPositionCall(AllPositions, 1)
    \/ ShutdownCall(1)
    \/ Destroy

FirstCallSpec == Init /\ [][NextFirstCall]_vars

---------------------------------------------------------------------------
(* Observations used by the properties *)

\* the frames the bus instance has seen so far, whoever owns it now
CurrentLog ==
    IF handle # {} THEN Log(The(handle))
    ELSE IF returned # {} THEN The(returned).log
    ELSE The(callerBus).log

Calls == 1..Len(history)

\* the call was stopped by the channel check or the position check
FailedValidation(r) == r.result \in {Err(WrongChannel), Err(OutOfBounds)}

\* the operation has a frame on the call's transport
Representable(r) == ~(r.transport = "I2cInterface" /\ r.command.tag = "Shutdown")

\* the valid-channel table of the specification
ValidChannels(v) ==
    CASE v = "Mcp401x" -> {"Ch0", "All"}
      [] v = "Mcp41x" -> {"Ch0", "All"}
      [] v = "Mcp42x" -> {"Ch0", "Ch1", "All"}

\* the accepted-position table of the specification
AcceptedPositions(v) ==
    CASE v = "Mcp401x" -> 0..127
      [] v = "Mcp41x" -> 0..255
      [] v = "Mcp42x" -> 0..255

---------------------------------------------------------------------------
(* Properties *)

\* C1: for every variant and every channel, the channel check succeeds iff
\* the channel is in the variant's valid set (Mcp401x, Mcp41x: Ch0, All;
\* Mcp42x: Ch0, Ch1, All) and otherwise fails with WrongChannel; a call is
\* rejected with WrongChannel exactly when its channel is not in the set.
C1_ChannelCheck ==
    \A i \in Calls :
        LET r == history[i]
            valid == r.command.channel \in ValidChannels(r.ic)
        IN  /\ check_if_channel_is_appropriate(r.ic, r.command.channel)
                  = (IF valid THEN Ok ELSE Err(WrongChannel))
            /\ (r.result = Err(WrongChannel)) <=> ~valid

\* Ch1 was rejected on a single-channel part and All was accepted on it
C1_Witness ==
    /\ \E i \in Calls : /\ history[i].ic = "Mcp41x"
                        /\ history[i].command.channel = "Ch1"
                        /\ history[i].result = Err(WrongChannel)
    /\ \E i \in Calls : /\ history[i].ic = "Mcp41x"
                        /\ history[i].command.channel = "All"
                        /\ history[i].result = Ok

\* C2: for every position 0..255 and every variant, the position check
\* succeeds iff the position is in the variant's range: on Mcp401x iff
\* P <= 127 (OutOfBounds for 128..255), on Mcp41x and Mcp42x always.
C2_PositionCheck ==
    \A i \in Calls :
        LET r == history[i] IN
        r.command.tag = "SetPosition" =>
            LET inRange == r.command.position \in AcceptedPositions(r.ic) IN
            /\ check_if_position_is_appropriate(r.ic, r.command.position)
                  = (IF inRange THEN Ok ELSE Err(OutOfBounds))
            /\ r.command.channel \in ValidChannels(r.ic) =>
                  ((r.result = Err(OutOfBounds)) <=> ~inRange)

\* position 128 was refused on the restricted-range part
C2_Witness ==
    \E i \in Calls : /\ history[i].ic = "Mcp401x"
                     /\ history[i].command = SetPosition("Ch0", 128)
                     /\ history[i].result = Err(OutOfBounds)

\* C3: on SPI, for Ch0/Ch1 and every position, the frame written is exactly
\* the two bytes [command byte, data byte]: SetPosition gives 0b0001_0000 |
\* bits(C) and P, Shutdown gives 0b0010_0000 | bits(C) and 0, bits(Ch0) = 1,
\* bits(Ch1) = 2; the command byte tells (operation, channel) pairs apart.
C3_SpiFrame ==
    /\ \A i \in Calls :
          LET r == history[i] IN
          (/\ r.transport = "SpiInterface"
           /\ r.command.channel \in {"Ch0", "Ch1"}
           /\ ~FailedValidation(r)) =>
              /\ r.after = r.before + 1
              /\ CurrentLog[r.after].bytes =
                    CASE r.command = Shutdown("Ch0") -> <<33, 0>>
                      [] r.command = Shutdown("Ch1") -> <<34, 0>>
                      [] r.command.tag = "SetPosition" /\ r.command.channel = "Ch0"
                            -> <<17, r.command.position>>
                      [] r.command.tag = "SetPosition" /\ r.command.channel = "Ch1"
                            -> <<18, r.command.position>>
    /\ \A t1, t2 \in {"SetPosition", "Shutdown"}, c1, c2 \in {"Ch0", "Ch1"} :
          get_command_byte([tag |-> t1, channel |-> c1, position |-> 0])
             = get_command_byte([tag |-> t2, channel |-> c2, position |-> 0])
          => (t1 = t2 /\ c1 = c2)

\* Shutdown(Ch1) went out on the dual-channel part as [0b0010_0010, 0]
C3_Witness ==
    \E i \in Calls : /\ history[i].ic = "Mcp42x"
                     /\ history[i].command = Shutdown("Ch1")
                     /\ history[i].after = 1
                     /\ CurrentLog[1].bytes = <<34, 0>>

\* C4: a set_position or shutdown call whose channel check or position
\* check fails performs no bus write: the frames seen by the transport are
\* the same after the call as before it.
C4_NoWriteOnFailedCheck ==
    [][(/\ Len(history') = Len(history) + 1
        /\ FailedValidation(history'[Len(history')]))
       => (/\ handle # {}
           /\ handle' # {}
           /\ Log(The(handle')) = Log(The(handle)))]_vars

\* a call was refused after the bus had already carried a frame, and the bus
\* still holds exactly that one frame
C4_Witness ==
    /\ Len(history) = 2
    /\ ~FailedValidation(history[1])
    /\ FailedValidation(history[2])
    /\ Len(CurrentLog) = 1

\* C5 as stated: on I2C, shutdown(C) fails with Unsupported for every
\* channel Ch0, Ch1, All, and performs no bus write.
C5_Original ==
    \A i \in Calls :
        LET r == history[i] IN
        (r.transport = "I2cInterface" /\ r.command.tag = "Shutdown") =>
            /\ r.result = Err(Unsupported)
            /\ r.after = r.before

\* C5 amended: on I2C, shutdown(C) performs no bus write for any channel; it
\* fails with Unsupported for Ch0 and All, and with WrongChannel for Ch1
\* (the channel check of the only I2C part, Mcp401x, runs first).
C5_I2cShutdown ==
    \A i \in Calls :
        LET r == history[i] IN
        (r.transport = "I2cInterface" /\ r.command.tag = "Shutdown") =>
            /\ r.result = (IF r.command.channel = "Ch1"
                           THEN Err(WrongChannel) ELSE Err(Unsupported))
            /\ r.after = r.before
            /\ Len(CurrentLog) >= r.after

\* shutdown(All) was refused as Unsupported on I2C after a frame was written
C5_Witness ==
    /\ Len(history) = 2
    /\ history[1].after = 1
    /\ history[2].transport = "I2cInterface"
    /\ history[2].command = Shutdown("All")
    /\ history[2].result = Err(Unsupported)
    /\ Len(CurrentLog) = 1

\* one command whose channel bits are bits(Ch0) | bits(Ch1)
C6_Combined(r) ==
    /\ r.after = r.before + 1
    /\ CurrentLog[r.after].bytes[1] % 4 = 3

\* two commands in a row, one for Ch0 and one for Ch1
C6_Sequential(r) ==
    /\ r.after = r.before + 2
    /\ {CurrentLog[r.before + 1].bytes[1] % 4, CurrentLog[r.after].bytes[1] % 4} = {1, 2}

C6_AllCalls == {i \in Calls : history[i].ic = "Mcp42x" /\ history[i].command.channel = "All"}

C7_I2cFrame ==
    \A i \in Calls :
        LET r == history[i] IN
        (/\ r.transport = "I2cInterface"
         /\ r.command.tag = "SetPosition"
         /\ ~FailedValidation(r)) =>
            /\ r.after = r.before + 1
            /\ Len(CurrentLog) >= r.after
            /\ CurrentLog[r.after].address = 47
            /\ CurrentLog[r.after].bytes = <<r.command.position>>

\* set_position(All, 127) on I2C wrote the single byte 127
C7_Witness ==
    \E i \in Calls : /\ history[i].transport = "I2cInterface"
                     /\ history[i].command = SetPosition("All", 127)
                     /\ history[i].result = Ok
                     /\ CurrentLog[history[i].after].bytes = <<127>>

\* C8: each call that passes validation and is representable on the
\* transport causes exactly one bus write, whether the write succeeds or
\* fails (no retry); the call returns Ok when the write succeeded and Comm
\* carrying the transport's own error when it failed; nothing else writes.
C8_OneWritePerCall ==
    /\ \A i \in Calls :
          LET r == history[i] IN
          /\ r.before = (IF i = 1 THEN 0 ELSE history[i - 1].after)
          /\ (~FailedValidation(r) /\ Representable(r)) =>
                /\ r.after = r.before + 1
                /\ Len(CurrentLog) >= r.after
                /\ r.result = (IF CurrentLog[r.after].res = "Ok" THEN Ok
                               ELSE Err(Comm(CurrentLog[r.after].res)))
    /\ Len(CurrentLog) = (IF history = <<>> THEN 0 ELSE history[Len(history)].after)

\* a write failed with E2 and was reported as Comm(E2); the next call
\* wrote once more and succeeded
C8_Witness ==
    /\ Len(history) = 2
    /\ history[1].result = Err(Comm("E2"))
    /\ history[2].result = Ok
    /\ Len(CurrentLog) = 2
    /\ CurrentLog[1].res = "E2"

\* C9: constructing a handle and destroying it at once returns the bus
\* instance that was supplied, unchanged, with no bus write in between.
C9_RoundTrip ==
    (returned # {} /\ history = <<>>) =>
        /\ returned = supplied
        /\ The(returned).log = <<>>

\* bus 2 came back from a handle on which nothing was called
C9_Witness ==
    /\ returned # {}
    /\ history = <<>>
    /\ The(returned).id = 2
    /\ The(returned).proto = "spi"

\* C10: set_position runs the channel check before the position check and
\* reports the first failure: an invalid channel gives WrongChannel for
\* every position, OutOfBounds is returned only for a valid channel with a
\* position out of range; shutdown never returns OutOfBounds.
C10_CheckOrder ==
    \A i \in Calls :
        LET r == history[i]
            valid == r.command.channel \in ValidChannels(r.ic)
        IN  /\ ~valid => r.result = Err(WrongChannel)
            /\ r.result = Err(OutOfBounds) =>
                  /\ r.command.tag = "SetPosition"
                  /\ valid
                  /\ r.command.position \notin AcceptedPositions(r.ic)

\* Ch1 with a position above 127 on Mcp401x was refused as WrongChannel
C10_Witness ==
    \E i \in Calls : /\ history[i].ic = "Mcp401x"
                     /\ history[i].command = SetPosition("Ch1", 200)
                     /\ history[i].result = Err(WrongChannel)

===========================================================================
